---- MODULE Spec2Model ----
(***************************************************************************)
(* A model of sst-scripts: the make-json translation regrouping pipeline   *)
(* (src/src/make-json.js) and the error boundaries of the other top-level  *)
(* commands.                                                               *)
(***************************************************************************)
EXTENDS Integers, Sequences, FiniteSets, TLC

(***************************************************************************)
(* Bounds of the model.                                                    *)
(***************************************************************************)
MaxFrags == 2
MaxEntries == 2
MaxFiles == 2

(***************************************************************************)
(* The finite universe of names the model draws its inputs from.           *)
(***************************************************************************)
Langs == {"sv_SE", "en_US"}
FragDomains == {"messages", "foo"}
SrcNames == {"a.js", "lib.js"}
JsKeys == {"a.js", "b.js"}
ManifestKeys == JsKeys \cup {"style.css"}
OutNames == {"a.1.js", "b.1.js"}

Max(a, b) == IF a >= b THEN a ELSE b

\* path.extname on the names of the universe
extname(file) ==
  CASE file \in {"a.js", "b.js", "lib.js", "a.1.js", "b.1.js"} -> ".js"
    [] file = "style.css" -> ".css"
    [] file \in {"plugin.pot", "sv_SE.po"} -> IF file = "plugin.pot" THEN ".pot" ELSE ".po"
    [] file = "assets.json" -> ".json"
    [] OTHER -> ""

\* path.join(dir, file), relative to the project root
join(dir, file) == [dir |-> dir, file |-> file]

\* md5 of a root-relative path, taken as collision-free
md5(p) == <<"md5", p.dir, p.file>>

(***************************************************************************)
(* JED catalogs.  A table is the object under locale_data[domain]: its ''  *)
(* entry (meta) and its message entries (msgs, key -> array of strings).   *)
(***************************************************************************)
\* the translated strings found in each source file: both files use "k1"
StringsOf(src) ==
  IF src = "a.js" THEN ("k1" :> <<"x", "xs">>)
  ELSE ("k1" :> <<"y">> @@ "k2" :> <<"w">>)

\* a fragment as `wp i18n make-json` writes it for one source file
Fragment(dom, src, lang) ==
  [domain |-> dom,
   source |-> join("src", src),
   locale_data |->
     (dom :> [meta |-> [domain |-> dom, lang |-> lang], msgs |-> StringsOf(src)])]

Fragments == {Fragment(d, s, l) : d \in FragDomains, s \in SrcNames, l \in Langs}

FragSeqs == UNION {[1..n -> Fragments] : n \in 0..MaxFrags}

\* a fragment an earlier run of the extraction wrote into os.tmpdir(), for a
\* source file the project's catalogs no longer mention
OldFragment ==
  [domain |-> "messages",
   source |-> join("src", "lib.js"),
   locale_data |->
     ("messages" :> [meta |-> [domain |-> "messages", lang |-> "sv_SE"],
                     msgs |-> ("k1" :> <<"old">>)])]

\* what os.tmpdir() holds before a run
Leftovers == {<<>>, <<OldFragment>>}

\* fs.readdir(tempDir) filtered on '.json': the files already there and the
\* files `wp i18n make-json --no-purge` added
JsonFilesIn(old, new) == old \o new

\* lodash merge of two arrays: index-wise, the source's elements overriding
MergeValue(a, b) ==
  [i \in 1..Max(Len(a), Len(b)) |-> IF i <= Len(b) THEN b[i] ELSE a[i]]

MergeMsgs(m1, m2) ==
  [k \in DOMAIN m1 \cup DOMAIN m2 |->
    IF k \in DOMAIN m1 /\ k \in DOMAIN m2 THEN MergeValue(m1[k], m2[k])
    ELSE IF k \in DOMAIN m2 THEN m2[k] ELSE m1[k]]

MergeTable(t1, t2) == [meta |-> t2.meta, msgs |-> MergeMsgs(t1.msgs, t2.msgs)]

MergeLocaleData(l1, l2) ==
  [d \in DOMAIN l1 \cup DOMAIN l2 |->
    IF d \in DOMAIN l1 /\ d \in DOMAIN l2 THEN MergeTable(l1[d], l2[d])
    ELSE IF d \in DOMAIN l2 THEN l2[d] ELSE l1[d]]

\* _.merge(dst, src): dst after the call
Merge2(dst, src) ==
  [domain |-> src.domain,
   source |-> src.source,
   locale_data |-> MergeLocaleData(dst.locale_data, src.locale_data)]

\* _.merge(...related): the first element, after the others were merged into it
RECURSIVE MergeFrom(_, _, _)
MergeFrom(acc, related, i) ==
  IF i > Len(related) THEN acc ELSE MergeFrom(Merge2(acc, related[i]), related, i + 1)

merge(related) == MergeFrom(related[1], related, 2)

\* a re-domain step that leaves the catalog as the merge returned it
ReDomainSkipped(m, domain) == m

\* a re-domain step without the test `originalDomain !== domain`: the table is
\* assigned to the target key and the original key is deleted, even when the
\* two keys are the same
ReDomainUnguarded(m, domain) ==
  [domain |-> domain,
   source |-> m.source,
   locale_data |->
     [d \in (DOMAIN m.locale_data \ {m.domain}) \cup ({domain} \ {m.domain}) |->
       IF d = domain
       THEN [meta |-> [m.locale_data[m.domain].meta EXCEPT !.domain = domain],
             msgs |-> m.locale_data[m.domain].msgs]
       ELSE m.locale_data[d]]]

\* the re-domain step of generateTranslations
ReDomain(m, domain) ==
  IF m.domain /= "" /\ m.domain /= domain
  THEN [domain |-> domain,
        source |-> m.source,
        locale_data |->
          [d \in (DOMAIN m.locale_data \ {m.domain}) \cup {domain} |->
            IF d = domain
            THEN [meta |-> [m.locale_data[m.domain].meta EXCEPT !.domain = domain],
                  msgs |-> m.locale_data[m.domain].msgs]
            ELSE m.locale_data[d]]]
  ELSE m

(***************************************************************************)
(* The inputs the environment hands to one run.                            *)
(***************************************************************************)
\* the content of a template file: its X-Domain value, or NoMarker when the
\* file has no `"X-Domain: <value>\n"` line
NoMarker == "<none>"
TemplateContents == {NoMarker, "foo"}
DistNames == {"plugin.pot", "sv_SE.po", "assets.json"}
DistFile(name, content) == [name |-> name, content |-> content]
DistFiles == {DistFile(n, c) : n \in DistNames, c \in TemplateContents}

\* directory listings: sequences of files with distinct names
Listings ==
  {l \in UNION {[1..n -> DistFiles] : n \in 0..MaxFiles} :
    \A i, j \in DOMAIN l : i /= j => l[i].name /= l[j].name}

\* assets.json: an object, its keys in insertion order
Manifests ==
  {m \in UNION {[1..n -> [key : ManifestKeys, out : OutNames \cup {"style.css"}]] :
                  n \in 0..MaxEntries} :
    /\ \A i, j \in DOMAIN m : i /= j => m[i].key /= m[j].key
    /\ \A i \in DOMAIN m : (m[i].out = "style.css") <=> (m[i].key = "style.css")
    /\ \A i \in DOMAIN m : m[i].key = "a.js" => m[i].out = "a.1.js"}

ManifestKeysOf(m) == {m[i].key : i \in DOMAIN m}

Null == "<null>"

\* content.match(/"x-domain: (\S+)\\n"/i): null, or [line, value] with a
\* non-empty value
match(content) == IF content = NoMarker THEN Null ELSE <<"x-domain-line", content>>

\* the files of a listing extractDomain reads
TranslationFiles(files) ==
  SelectSeq(files, LAMBDA f : extname(f.name) = ".pot" \/ extname(f.name) = ".po")

NotFoundError == "no .po- or .pot-files were found"
NoDomainError == "No text domain found"
TypeError == "TypeError"
IOError == "IOError"
ToolError == "ExternalToolFailure"
ManifestError == "Could not read assets.json manifest"

\* the grouping reduce of getOriginalTranslations
FragLang(t) == t.locale_data[t.domain].meta.lang

\* a reduce that drops `...(acc[lang] || [])`: each group keeps its last
\* fragment only
GroupLastOnly(frags) ==
  [l \in {FragLang(frags[i]) : i \in DOMAIN frags} |->
    LET g == SelectSeq(frags, LAMBDA t : FragLang(t) = l) IN <<g[Len(g)]>>]

\* translations.reduce((acc, translation) => ({...acc, [lang]: [...(acc[lang] || []), translation]}), {})
RECURSIVE GroupFrom(_, _, _)
GroupFrom(acc, frags, i) ==
  IF i > Len(frags) THEN acc
  ELSE LET lang == FragLang(frags[i]) IN
    GroupFrom((lang :> Append(IF lang \in DOMAIN acc THEN acc[lang] ELSE <<>>, frags[i]))
                @@ acc,
              frags, i + 1)

GroupByLang(frags) == GroupFrom(<<>>, frags, 1)

\* madge(srcFile).obj() mapped through path.join(paths.src, dep)
Dependencies(key, users) ==
  {join("src", key)} \cup (IF key \in users THEN {join("src", "lib.js")} ELSE {})

\* a loop without the extension test: the next key, whatever its extension
NextAny(m, i) == IF i > Len(m) THEN Len(m) + 1 ELSE i

\* the index of the first '.js' key at or after i, Len + 1 if there is none
RECURSIVE NextJs(_, _)
NextJs(m, i) ==
  IF i > Len(m) THEN Len(m) + 1
  ELSE IF extname(m[i].key) = ".js" THEN i ELSE NextJs(m, i + 1)

\* the filter without its test: every translation of the locale is related
RelatedUnfiltered(trs, deps) == trs

\* translations.filter(...): the related translations, in array order
Related(trs, deps) == SelectSeq(trs, LAMBDA t : t.source \in deps)

Min(S) == CHOOSE x \in S : \A y \in S : x <= y

\* the place in the array of the object _.merge writes into: its first argument
FirstRelated(trs, deps) == Min({i \in DOMAIN trs : trs[i] = Related(trs, deps)[1]})

relativeFilename(out) == join("dist", out)

\* the catalog object of one entry: merge, re-domain, source
MergedTranslations(trs, deps, domain, out) ==
  [ReDomain(merge(Related(trs, deps)), domain) EXCEPT !.source = relativeFilename(out)]

\* the translations array after one entry: _.merge writes into its first
\* argument, which is an element of the array
TranslationsAfter(trs, deps, domain, out) ==
  IF Len(Related(trs, deps)) < 1 THEN trs
  ELSE [trs EXCEPT ![FirstRelated(trs, deps)] = MergedTranslations(trs, deps, domain, out)]

\* a file name that leaves the hash of the built file out
translationFileNameNoHash(domain, lang, out) ==
  [dir |-> "dist", domain |-> domain, lang |-> lang, hash |-> <<>>]

translationFileName(domain, lang, out) ==
  [dir |-> "dist", domain |-> domain, lang |-> lang, hash |-> md5(relativeFilename(out))]

(***************************************************************************)
(* State.                                                                  *)
(***************************************************************************)
VARIABLES
  cmd,           \* the subcommand yargs dispatched
  pc,            \* where the top-level operation stands
  outcome,       \* "running", "returned" or "rejected": the handler's promise
  log,           \* what was printed with console.error, in order, each entry
                 \* with the step that threw
  templates,     \* extractDomain: translationFiles, until it returns a domain
  ti,            \* extractDomain: the loop index i (1-based)
  domain,        \* makeJson: the extracted text domain
  loaded,        \* the fragments as getOriginalTranslations returned them
  translations,  \* originalTranslations: lang -> array of fragment objects
  manifest,      \* the parsed assets.json
  libUsers,      \* the entrypoints whose dependency tree holds src/lib.js
  pipe,          \* lang -> the position of its generateTranslations call
  writes,        \* the fs.writeFile calls issued, pipeline by pipeline
  disk,          \* the catalogs in dist: file name -> content
  wpCalls,       \* number of `wp i18n make-json` invocations
  madgeCalls,    \* number of madge calls started
  leftover,      \* the .json files os.tmpdir() holds when the run starts
  parsed,        \* getOriginalTranslations: the parsed files, until it returns
  src,           \* makePot: the files under src, file -> content
  tmpSrc,        \* makePot: the backup directory, file -> content
  hasViews,      \* makePot: whether the project has a views directory
  tmpTwig,       \* makePot: whether the .temp-twig directory exists
  pot,           \* makePot: the .pot file, "absent", "temp-paths" or "twig-paths"
  hasProjectRoot, \* generatePlugin: whether getData's paths holds projectRoot
  plugin,        \* generatePlugin: the files written into the plugin directory
  pkgDisk,       \* makeAliases: package.json on disk
  pkg,           \* makeAliases: the package object getData returned
  aliasDir,      \* makeAliases: src/alias, file name -> content
  dependencies,  \* makeAliases: the array of alias files to write
  alias,         \* makeAliases: the alias object being built
  ai,            \* makeAliases: the loop index i (1-based)
  aliasBefore    \* makeAliases: package.json and src/alias as the run found them

potVars == <<src, tmpSrc, hasViews, tmpTwig, pot>>

pluginVars == <<hasProjectRoot, plugin>>

aliasVars == <<pkgDisk, pkg, aliasDir, dependencies, alias, ai, aliasBefore>>

vars == <<cmd, pc, outcome, log, templates, ti, domain, loaded, translations,
          manifest, libUsers, pipe, writes, disk, wpCalls, madgeCalls,
          src, tmpSrc, hasViews, tmpTwig, pot, hasProjectRoot, plugin,
          pkgDisk, pkg, aliasDir, dependencies, alias, ai, aliasBefore, leftover, parsed>>

jsonVars == <<templates, ti, domain, loaded, translations, manifest, libUsers,
              pipe, writes, disk, wpCalls, madgeCalls, leftover, parsed>>

Commands == {"make-pot", "make-json", "make-aliases", "generate-plugin"}

\* the project's source files; a.js holds a dynamic import(), b.js none
PotFiles == {"a.js", "b.js"}
Original(file) == <<"original", file>>
\* replace-in-file on one file: lines holding import(...) are commented out
Commented(file, content) == IF file = "a.js" THEN <<"commented", content>> ELSE content

\* os.tmpdir()/src as an earlier run left it: absent, or holding the backup
\* that run took and could not remove
Stale(file) == <<"stale", file>>
TmpSrcs == {<<>>, [f \in PotFiles |-> Stale(f)]}

PluginFiles ==
  {"package.json", "plugin.php", "src/plugin.js", "index.php", ".babelrc", ".gitignore"}

Init ==
  /\ cmd \in Commands
  /\ pc = "getData"
  /\ outcome = "running"
  /\ log = <<>>
  /\ templates = <<>>
  /\ ti = 1
  /\ domain = ""
  /\ loaded = <<>>
  /\ translations = <<>>
  /\ manifest = <<>>
  /\ libUsers = {}
  /\ pipe = <<>>
  /\ writes = <<>>
  /\ disk = <<>>
  /\ wpCalls = 0
  /\ madgeCalls = 0
  /\ parsed = <<>>
  /\ leftover \in (IF cmd = "make-json" THEN Leftovers ELSE {<<>>})
  /\ src = [f \in PotFiles |-> Original(f)]
  /\ tmpSrc \in (IF cmd = "make-pot" THEN TmpSrcs ELSE {<<>>})
  /\ hasViews = FALSE
  /\ tmpTwig = FALSE
  /\ pot = "absent"
  /\ hasProjectRoot = FALSE
  /\ plugin = {}
  /\ pkgDisk = <<>>
  /\ pkg = <<>>
  /\ aliasDir = <<>>
  /\ dependencies = <<>>
  /\ alias = <<>>
  /\ ai = 1
  /\ aliasBefore = [pkg |-> <<>>, dir |-> <<>>]

JsonMessage == "Could not generate translations"

\* a catch block that logs an extractDomain failure and lets makeJson go on
JsonCatchAndGoOn(error) ==
  /\ log' = Append(log, [message |-> JsonMessage, error |-> error, at |-> pc])
  /\ pc' = IF pc \in {"readdir", "readFile"} THEN "execWp" ELSE "returned"
  /\ outcome' = IF pc \in {"readdir", "readFile"} THEN outcome ELSE "returned"

\* the catch block of makeJson
JsonCatch(error) ==
  /\ log' = Append(log, [message |-> JsonMessage, error |-> error, at |-> pc])
  /\ pc' = "returned"
  /\ outcome' = "returned"

(***************************************************************************)
(* makeJson, up to the call of generateTranslations.                       *)
(***************************************************************************)
JsonGetData ==
  /\ cmd = "make-json" /\ pc = "getData"
  /\ \/ /\ pc' = "ensureDir"
        /\ UNCHANGED <<outcome, log>>
     \/ JsonCatch(IOError)
  /\ UNCHANGED <<cmd, jsonVars, potVars, pluginVars, aliasVars>>

JsonEnsureDir ==
  /\ cmd = "make-json" /\ pc = "ensureDir"
  /\ \/ /\ pc' = "readdir"
        /\ UNCHANGED <<outcome, log>>
     \/ JsonCatch(IOError)
  /\ UNCHANGED <<cmd, jsonVars, potVars, pluginVars, aliasVars>>

\* extractDomain: readdir, filter, the length check
JsonReaddir ==
  /\ cmd = "make-json" /\ pc = "readdir"
  /\ \/ \E files \in Listings :
          IF Len(TranslationFiles(files)) < 1
          THEN /\ JsonCatch(NotFoundError)
               /\ UNCHANGED <<templates, ti>>
          ELSE /\ templates' = TranslationFiles(files)
               /\ ti' = 1
               /\ pc' = "readFile"
               /\ UNCHANGED <<outcome, log>>
     \/ /\ JsonCatch(IOError)
        /\ UNCHANGED <<templates, ti>>
  /\ UNCHANGED <<cmd, leftover, parsed, domain, loaded, translations, manifest, libUsers, pipe,
                 writes, disk, wpCalls, madgeCalls, potVars, pluginVars, aliasVars>>

\* extractDomain: one turn of the loop, readFile and match
JsonReadTemplate ==
  /\ cmd = "make-json" /\ pc = "readFile"
  /\ \/ LET m == match(templates[ti].content) IN
          IF m = Null
          THEN /\ JsonCatch(TypeError)
               /\ UNCHANGED <<templates, ti, domain>>
          ELSE IF m[2] /= ""
          THEN /\ domain' = m[2]
               /\ templates' = <<>>
               /\ ti' = 1
               /\ pc' = "execWp"
               /\ UNCHANGED <<outcome, log>>
          ELSE IF ti + 1 > Len(templates)
          THEN /\ JsonCatch(NoDomainError)
               /\ UNCHANGED <<templates, ti, domain>>
          ELSE /\ ti' = ti + 1
               /\ UNCHANGED <<pc, templates, domain, outcome, log>>
     \/ /\ JsonCatch(IOError)
        /\ UNCHANGED <<templates, ti, domain>>
  /\ UNCHANGED <<cmd, leftover, parsed, loaded, translations, manifest, libUsers, pipe,
                 writes, disk, wpCalls, madgeCalls, potVars, pluginVars, aliasVars>>

\* getOriginalTranslations: the wp-cli call
JsonExecWp ==
  /\ cmd = "make-json" /\ pc = "execWp"
  /\ wpCalls' = wpCalls + 1
  /\ \/ /\ pc' = "readTemp"
        /\ UNCHANGED <<outcome, log>>
     \/ JsonCatch(ToolError)
  /\ UNCHANGED <<cmd, leftover, parsed, templates, ti, domain, loaded, translations, manifest,
                 libUsers, pipe, writes, disk, madgeCalls, potVars, pluginVars, aliasVars>>

\* getOriginalTranslations: readdir, and the Promise.all of readFile and parse
JsonReadTemp ==
  /\ cmd = "make-json" /\ pc = "readTemp"
  /\ \/ \E frags \in FragSeqs :
          /\ Len(leftover) + Len(frags) <= MaxFrags
          /\ parsed' = JsonFilesIn(leftover, frags)
          /\ pc' = "group"
          /\ UNCHANGED <<outcome, log>>
     \/ /\ JsonCatch(IOError)
        /\ UNCHANGED parsed
  /\ UNCHANGED <<cmd, leftover, templates, ti, domain, loaded, translations, manifest,
                 libUsers, pipe, writes, disk, wpCalls, madgeCalls, potVars, pluginVars,
                 aliasVars>>

\* getOriginalTranslations: the grouping reduce and the return
JsonGroup ==
  /\ cmd = "make-json" /\ pc = "group"
  /\ loaded' = GroupByLang(parsed)
  /\ translations' = GroupByLang(parsed)
  /\ parsed' = <<>>
  /\ pc' = "manifest"
  /\ UNCHANGED <<cmd, outcome, log, leftover, templates, ti, domain, manifest, libUsers,
                 pipe, writes, disk, wpCalls, madgeCalls, potVars, pluginVars, aliasVars>>

\* a pipeline that reached `await Promise.all(promises)`: rejected when one of
\* its writes failed, fulfilled when none is pending
AtAwait(lang, ws) ==
  IF \E i \in DOMAIN ws : ws[i].lang = lang /\ ws[i].st = "failed" THEN "failed"
  ELSE IF \E i \in DOMAIN ws : ws[i].lang = lang /\ ws[i].st = "pending" THEN "await"
  ELSE "done"

\* makeJson at `await Promise.all(promises)`: the first rejection is caught
\* and logged, the last fulfilment lets makeJson return
Settle(pipe2, error) ==
  IF pc = "awaitAll" /\ \E l \in DOMAIN pipe2 : pipe2[l].st = "failed"
  THEN JsonCatch(error)
  ELSE IF pc = "awaitAll" /\ \A l \in DOMAIN pipe2 : pipe2[l].st = "done"
  THEN /\ pc' = "returned"
       /\ outcome' = "returned"
       /\ UNCHANGED log
  ELSE UNCHANGED <<pc, outcome, log>>

\* getAssetsManifest
JsonManifest ==
  /\ cmd = "make-json" /\ pc = "manifest"
  /\ \/ \E m \in Manifests : \E users \in SUBSET (JsKeys \cap ManifestKeysOf(m)) :
          /\ manifest' = m
          /\ libUsers' = users
          /\ pc' = "spawn"
          /\ UNCHANGED <<outcome, log>>
     \/ /\ JsonCatch(ManifestError)
        /\ UNCHANGED <<manifest, libUsers>>
  /\ UNCHANGED <<cmd, leftover, parsed, templates, ti, domain, loaded, translations, pipe, writes,
                 disk, wpCalls, madgeCalls, potVars, pluginVars, aliasVars>>

\* the loop of makeJson: every call of generateTranslations runs to its first
\* `await madge(...)`, or to `await Promise.all([])` when no key is a '.js' key
JsonSpawn ==
  /\ cmd = "make-json" /\ pc = "spawn"
  /\ LET first == NextJs(manifest, 1)
         pipe2 == [l \in DOMAIN translations |->
                    IF first <= Len(manifest) THEN [idx |-> first, st |-> "madge"]
                    ELSE [idx |-> first, st |-> "done"]]
     IN /\ pipe' = pipe2
        /\ madgeCalls' = IF first <= Len(manifest)
                         THEN madgeCalls + Cardinality(DOMAIN translations)
                         ELSE madgeCalls
        /\ IF \A l \in DOMAIN pipe2 : pipe2[l].st = "done"
           THEN /\ pc' = "returned"
                /\ outcome' = "returned"
           ELSE /\ pc' = "awaitAll"
                /\ UNCHANGED outcome
  /\ UNCHANGED <<cmd, leftover, parsed, log, templates, ti, domain, loaded, translations, manifest,
                 libUsers, writes, disk, wpCalls, potVars, pluginVars, aliasVars>>

(***************************************************************************)
(* generateTranslations of one language.                                   *)
(***************************************************************************)
\* the write record of fs.writeFile(translationFileName, JSON.stringify(...)),
\* with the relatedTranslations the entry's merge took
WriteOf(lang, entry, trs, deps) ==
  [lang |-> lang,
   key |-> entry.key,
   related |-> Related(trs, deps),
   file |-> translationFileName(domain, lang, entry.out),
   content |-> MergedTranslations(trs, deps, domain, entry.out),
   st |-> "pending"]

\* promises.push(fs.writeFile(...)): the writes are kept pipeline by pipeline,
\* each pipeline's in the order it issued them
LangRank(lang) == IF lang = "sv_SE" THEN 1 ELSE 2

Issue(ws, w) ==
  SelectSeq(ws, LAMBDA x : LangRank(x.lang) <= LangRank(w.lang))
    \o <<w>>
    \o SelectSeq(ws, LAMBDA x : LangRank(x.lang) > LangRank(w.lang))

\* madge resolves for the entry at pipe[lang].idx: the rest of the loop body,
\* and the loop up to the next `await`
GenerateStep(lang) ==
  /\ cmd = "make-json"
  /\ lang \in DOMAIN pipe
  /\ pipe[lang].st = "madge"
  /\ LET entry == manifest[pipe[lang].idx]
         trs == translations[lang]
         deps == Dependencies(entry.key, libUsers)
         next == NextJs(manifest, pipe[lang].idx + 1)
         ws == IF Len(Related(trs, deps)) < 1 THEN writes
               ELSE Issue(writes, WriteOf(lang, entry, trs, deps))
         pipe2 == [pipe EXCEPT ![lang] =
                     IF next <= Len(manifest) THEN [idx |-> next, st |-> "madge"]
                     ELSE [idx |-> next, st |-> AtAwait(lang, ws)]]
     IN /\ translations' =
             [translations EXCEPT ![lang] = TranslationsAfter(trs, deps, domain, entry.out)]
        /\ writes' = ws
        /\ pipe' = pipe2
        /\ madgeCalls' = IF next <= Len(manifest) THEN madgeCalls + 1 ELSE madgeCalls
        /\ Settle(pipe2, IOError)
  /\ UNCHANGED <<cmd, leftover, parsed, templates, ti, domain, loaded, manifest, libUsers, disk, wpCalls,
                 potVars, pluginVars, aliasVars>>

\* madge rejects: generateTranslations rejects
GenerateMadgeFails(lang) ==
  /\ cmd = "make-json"
  /\ lang \in DOMAIN pipe
  /\ pipe[lang].st = "madge"
  /\ LET pipe2 == [pipe EXCEPT ![lang].st = "failed"]
     IN /\ pipe' = pipe2
        /\ Settle(pipe2, ToolError)
  /\ UNCHANGED <<cmd, leftover, parsed, templates, ti, domain, loaded, translations, manifest,
                 libUsers, writes, disk, wpCalls, madgeCalls, potVars, pluginVars, aliasVars>>

\* one fs.writeFile finishes
WriteDone(i) ==
  /\ cmd = "make-json"
  /\ i \in DOMAIN writes
  /\ writes[i].st = "pending"
  /\ LET ws == [writes EXCEPT ![i].st = "done"]
         lang == writes[i].lang
         pipe2 == IF pipe[lang].st = "await"
                  THEN [pipe EXCEPT ![lang].st = AtAwait(lang, ws)]
                  ELSE pipe
     IN /\ writes' = ws
        /\ disk' = (writes[i].file :> writes[i].content) @@ disk
        /\ pipe' = pipe2
        /\ Settle(pipe2, IOError)
  /\ UNCHANGED <<cmd, leftover, parsed, templates, ti, domain, loaded, translations, manifest,
                 libUsers, wpCalls, madgeCalls, potVars, pluginVars, aliasVars>>

\* one fs.writeFile fails
WriteFails(i) ==
  /\ cmd = "make-json"
  /\ i \in DOMAIN writes
  /\ writes[i].st = "pending"
  /\ LET ws == [writes EXCEPT ![i].st = "failed"]
         lang == writes[i].lang
         pipe2 == IF pipe[lang].st = "await"
                  THEN [pipe EXCEPT ![lang].st = AtAwait(lang, ws)]
                  ELSE pipe
     IN /\ writes' = ws
        /\ pipe' = pipe2
        /\ Settle(pipe2, IOError)
  /\ UNCHANGED <<cmd, leftover, parsed, templates, ti, domain, loaded, translations, manifest,
                 libUsers, disk, wpCalls, madgeCalls, potVars, pluginVars, aliasVars>>

(***************************************************************************)
(* makePot.                                                                *)
(***************************************************************************)
PotMessage == "An error occured while generating a .pot-file"

\* the catch block of makePot; the finally block follows
PotCatch(error) ==
  /\ log' = Append(log, [message |-> PotMessage, error |-> error, at |-> pc])
  /\ pc' = "pot.restore"

\* fs.copy(from, to) that got as far as the files in `done`
CopyOver(from, to, done) ==
  [f \in DOMAIN to \cup (DOMAIN from \cap done) |->
    IF f \in DOMAIN from \cap done THEN from[f] ELSE to[f]]

\* getData(false), before the try block
PotGetData ==
  /\ cmd = "make-pot" /\ pc = "getData"
  /\ \/ /\ pc' = "pot.backup"
        /\ UNCHANGED outcome
     \/ /\ pc' = "rejected"
        /\ outcome' = "rejected"
  /\ UNCHANGED <<cmd, log, jsonVars, potVars, pluginVars, aliasVars>>

\* fs.copy(paths.src, tmpSrc)
PotBackup ==
  /\ cmd = "make-pot" /\ pc = "pot.backup"
  /\ \/ /\ tmpSrc' = CopyOver(src, tmpSrc, PotFiles)
        /\ pc' = "pot.replace"
        /\ UNCHANGED log
     \/ \E done \in SUBSET PotFiles :
          /\ done /= PotFiles
          /\ tmpSrc' = CopyOver(src, tmpSrc, done)
          /\ PotCatch(IOError)
  /\ UNCHANGED <<cmd, outcome, jsonVars, src, hasViews, tmpTwig, pot, pluginVars, aliasVars>>

\* replace({files: src/**/*.js, from: /.+import\(.+\);?/g, ...})
PotReplace ==
  /\ cmd = "make-pot" /\ pc = "pot.replace"
  /\ \/ /\ src' = [f \in DOMAIN src |-> Commented(f, src[f])]
        /\ pc' = "pot.twig"
        /\ UNCHANGED log
     \/ \E done \in SUBSET PotFiles :
          /\ done /= PotFiles
          /\ src' = [f \in DOMAIN src |-> IF f \in done THEN Commented(f, src[f]) ELSE src[f]]
          /\ PotCatch(IOError)
  /\ UNCHANGED <<cmd, outcome, jsonVars, tmpSrc, hasViews, tmpTwig, pot, pluginVars, aliasVars>>

\* convertTwigFiles(tmpTwigDir)
PotConvertTwig ==
  /\ cmd = "make-pot" /\ pc = "pot.twig"
  /\ hasViews' \in BOOLEAN
  /\ \/ /\ tmpTwig' = hasViews'
        /\ pc' = "pot.wp"
        /\ UNCHANGED log
     \/ /\ tmpTwig' \in {FALSE, hasViews'}
        /\ PotCatch(IOError)
  /\ UNCHANGED <<cmd, outcome, jsonVars, src, tmpSrc, pot, pluginVars, aliasVars>>

\* execa('wp', ['i18n', 'make-pot', ...])
PotExecWp ==
  /\ cmd = "make-pot" /\ pc = "pot.wp"
  /\ \/ /\ pot' = "temp-paths"
        /\ pc' = "pot.paths"
        /\ UNCHANGED log
     \/ /\ PotCatch(ToolError)
        /\ UNCHANGED pot
  /\ UNCHANGED <<cmd, outcome, jsonVars, src, tmpSrc, hasViews, tmpTwig, pluginVars, aliasVars>>

\* updateTwigFilePaths(tmpTwigDir, potPath)
PotUpdatePaths ==
  /\ cmd = "make-pot" /\ pc = "pot.paths"
  /\ \/ /\ pot' = "twig-paths"
        /\ pc' = "pot.restore"
        /\ UNCHANGED log
     \/ /\ PotCatch(IOError)
        /\ UNCHANGED pot
  /\ UNCHANGED <<cmd, outcome, jsonVars, src, tmpSrc, hasViews, tmpTwig, pluginVars, aliasVars>>

\* finally: fs.copy(tmpSrc, paths.src).catch(() => {})
PotRestore ==
  /\ cmd = "make-pot" /\ pc = "pot.restore"
  /\ \E done \in SUBSET PotFiles : src' = CopyOver(tmpSrc, src, done)
  /\ pc' = "pot.removeTmp"
  /\ UNCHANGED <<cmd, outcome, log, jsonVars, tmpSrc, hasViews, tmpTwig, pot, pluginVars, aliasVars>>

\* finally: fs.remove(tmpSrc).catch(() => {})
PotRemoveTmp ==
  /\ cmd = "make-pot" /\ pc = "pot.removeTmp"
  /\ tmpSrc' \in {<<>>, tmpSrc}
  /\ pc' = "pot.removeTwig"
  /\ UNCHANGED <<cmd, outcome, log, jsonVars, src, hasViews, tmpTwig, pot, pluginVars, aliasVars>>

\* finally: fs.remove(tmpTwigDir).catch(() => {})
PotRemoveTwig ==
  /\ cmd = "make-pot" /\ pc = "pot.removeTwig"
  /\ tmpTwig' \in {FALSE, tmpTwig}
  /\ pc' = "returned"
  /\ outcome' = "returned"
  /\ UNCHANGED <<cmd, log, jsonVars, src, tmpSrc, hasViews, pot, pluginVars, aliasVars>>

(***************************************************************************)
(* generatePlugin.                                                         *)
(***************************************************************************)
PluginMessage == "Failed to create plugin"

\* inquirer.prompt(questions), before the try block
PluginPrompt ==
  /\ cmd = "generate-plugin" /\ pc = "getData"
  /\ \/ /\ pc' = "plugin.getData"
        /\ UNCHANGED outcome
     \/ /\ pc' = "rejected"
        /\ outcome' = "rejected"
  /\ UNCHANGED <<cmd, log, jsonVars, potVars, pluginVars, aliasVars>>

\* getData() and path.join(data.paths.projectRoot, ...), before the try block:
\* getData may reject, and path.join throws a TypeError when the paths object
\* holds no projectRoot (src/src/data.js returns none)
PluginGetData ==
  /\ cmd = "generate-plugin" /\ pc = "plugin.getData"
  /\ \/ /\ hasProjectRoot' = TRUE
        /\ pc' = "plugin.mkdir"
        /\ UNCHANGED outcome
     \/ /\ hasProjectRoot' = FALSE
        /\ pc' = "rejected"
        /\ outcome' = "rejected"
  /\ UNCHANGED <<cmd, log, jsonVars, potVars, plugin, aliasVars>>

\* the catch block of generatePlugin
PluginCatch(error) ==
  /\ log' = Append(log, [message |-> PluginMessage, error |-> error, at |-> pc])
  /\ pc' = "returned"
  /\ outcome' = "returned"

\* mkdir(data.paths.plugins) and the mkdir of every folder
PluginMkdir ==
  /\ cmd = "generate-plugin" /\ pc = "plugin.mkdir"
  /\ \/ /\ pc' = "plugin.write"
        /\ UNCHANGED <<outcome, log>>
     \/ PluginCatch(IOError)
  /\ UNCHANGED <<cmd, jsonVars, potVars, pluginVars, aliasVars>>

\* Promise.all(files.map(writeFile))
PluginWrite ==
  /\ cmd = "generate-plugin" /\ pc = "plugin.write"
  /\ \/ /\ plugin' = PluginFiles
        /\ pc' = "returned"
        /\ outcome' = "returned"
        /\ UNCHANGED log
     \/ \E done \in SUBSET PluginFiles :
          /\ done /= PluginFiles
          /\ plugin' = done
          /\ PluginCatch(IOError)
  /\ UNCHANGED <<cmd, jsonVars, potVars, hasProjectRoot, aliasVars>>

(***************************************************************************)
(* makeAliases.                                                            *)
(***************************************************************************)
\* the package names of the universe, in the order package.json lists them
DepOrder == <<"@wordpress/i18n", "@wordpress/api-fetch", "react", "lodash">>
DepNames == {DepOrder[i] : i \in DOMAIN DepOrder}
WpDeps == {"@wordpress/i18n", "@wordpress/api-fetch", "@wordpress/data"}
AliasKeys == {"@wordpress/data", "react", "jquery"}
AliasDirNames == {"wordpress-i18n.js", "wordpress-data.js", "react.js", "notes.js"}

\* dep.indexOf('@wordpress') > -1
HasWordpressScope(name) == name \in WpDeps

\* a filter that finds no previous alias file
HasWordpressNever(file) == FALSE

\* f.indexOf('wordpress') > -1
HasWordpress(file) ==
  file \in {"wordpress-i18n.js", "wordpress-api-fetch.js", "wordpress-data.js"}

\* dep.split('/')[1]
moduleName(dep) ==
  CASE dep = "@wordpress/i18n" -> "i18n"
    [] dep = "@wordpress/api-fetch" -> "api-fetch"
    [] dep = "@wordpress/data" -> "data"

camelCaseDash(str) == IF str = "api-fetch" THEN "apiFetch" ELSE str

\* `wordpress-${moduleName}.js`
wpFilename(module) ==
  CASE module = "i18n" -> "wordpress-i18n.js"
    [] module = "api-fetch" -> "wordpress-api-fetch.js"
    [] module = "data" -> "wordpress-data.js"

\* template({ moduleExport })
template(moduleExport) == <<"module.exports", moduleExport>>

\* `${paths.aliasesRelativeRoot}/${filename}`
aliasPath(filename) == <<"./src/alias", filename>>

OldContent(file) == <<"old", file>>
OldAlias(key) == <<"./old", key>>

\* pkg.dependencies when package.json has no dependencies field
NoDependencies == {Null}

\* package.json as read; a missing alias field reads as the empty object
\* (pkg.alias || {})
PkgJsons ==
  {[dependencies |-> d, alias |-> a, name |-> "plugin"] :
    d \in {NoDependencies} \cup SUBSET DepNames,
    a \in {[k \in ks |-> OldAlias(k)] : ks \in SUBSET AliasKeys}}

AliasDirs == {[f \in fs |-> OldContent(f)] : fs \in SUBSET AliasDirNames}

\* Object.keys(pkg.dependencies)
DepKeys(deps) == SelectSeq(DepOrder, LAMBDA d : d \in deps)

\* the dependencies array: the @wordpress packages, then react, then lodash
WpAliasOf(dep) ==
  [name |-> dep,
   filename |-> wpFilename(moduleName(dep)),
   content |-> template(<<"window.wp", camelCaseDash(moduleName(dep))>>)]

RECURSIVE MapWp(_)
MapWp(keys) ==
  IF keys = <<>> THEN <<>> ELSE <<WpAliasOf(Head(keys))>> \o MapWp(Tail(keys))

DependenciesOf(deps) ==
  MapWp(SelectSeq(DepKeys(deps), HasWordpressScope))
    \o (IF "react" \in deps
        THEN <<[name |-> "react", filename |-> "react.js",
                content |-> template(<<"window.React">>)]>>
        ELSE <<>>)
    \o (IF "lodash" \in deps
        THEN <<[name |-> "lodash", filename |-> "lodash.js",
                content |-> template(<<"window.lodash">>)]>>
        ELSE <<>>)

\* an alias object built from scratch, without the entries package.json had
FreshAliasEmpty(a) == <<>>

\* the reduce over Object.entries(pkg.alias || {})
FreshAlias(a) == [k \in {x \in DOMAIN a : ~HasWordpressScope(x)} |-> a[k]]

\* the catch block of makeAliases
AliasCatch(error) ==
  /\ log' = Append(log, [message |-> "", error |-> error, at |-> pc])
  /\ pc' = "returned"
  /\ outcome' = "returned"

AliasGetData ==
  /\ cmd = "make-aliases" /\ pc = "getData"
  /\ \/ \E p \in PkgJsons :
          /\ pkgDisk' = p
          /\ pkg' = p
          /\ aliasBefore' = [aliasBefore EXCEPT !.pkg = p]
          /\ pc' = "alias.readdir"
          /\ UNCHANGED <<outcome, log>>
     \/ /\ AliasCatch(IOError)
        /\ UNCHANGED <<pkgDisk, pkg, aliasBefore>>
  /\ UNCHANGED <<cmd, jsonVars, potVars, pluginVars, aliasDir, dependencies, alias, ai>>

\* removePreviousWpAliases: readdir and the filter
AliasReaddir ==
  /\ cmd = "make-aliases" /\ pc = "alias.readdir"
  /\ \/ \E d \in AliasDirs :
          /\ aliasDir' = d
          /\ aliasBefore' = [aliasBefore EXCEPT !.dir = d]
          /\ pc' = "alias.unlink"
          /\ UNCHANGED <<outcome, log>>
     \/ /\ AliasCatch(IOError)
        /\ UNCHANGED <<aliasDir, aliasBefore>>
  /\ UNCHANGED <<cmd, jsonVars, potVars, pluginVars, pkgDisk, pkg, dependencies, alias, ai>>

\* removePreviousWpAliases: Promise.all of the unlinks; on success makeAliases
\* runs on to its first writeFile
AliasUnlink ==
  /\ cmd = "make-aliases" /\ pc = "alias.unlink"
  /\ LET wpAliases == {f \in DOMAIN aliasDir : HasWordpress(f)} IN
       \/ /\ aliasDir' = [f \in DOMAIN aliasDir \ wpAliases |-> aliasDir[f]]
          /\ IF pkg.dependencies = NoDependencies
             THEN /\ AliasCatch(TypeError)
                  /\ UNCHANGED <<dependencies, alias, ai>>
             ELSE /\ dependencies' = DependenciesOf(pkg.dependencies)
                  /\ alias' = FreshAlias(pkg.alias)
                  /\ ai' = 1
                  /\ pc' = "alias.write"
                  /\ UNCHANGED <<outcome, log>>
       \/ \E gone \in SUBSET wpAliases :
            /\ gone /= wpAliases
            /\ aliasDir' = [f \in DOMAIN aliasDir \ gone |-> aliasDir[f]]
            /\ AliasCatch(IOError)
            /\ UNCHANGED <<dependencies, alias, ai>>
  /\ UNCHANGED <<cmd, jsonVars, potVars, pluginVars, pkgDisk, pkg, aliasBefore>>

\* one turn of a loop that saves package.json before it writes the alias file
AliasWriteFileAfterPackage ==
  /\ cmd = "make-aliases" /\ pc = "alias.write"
  /\ ai <= Len(dependencies)
  /\ alias' = (dependencies[ai].name :> aliasPath(dependencies[ai].filename)) @@ alias
  /\ pkgDisk' = [pkg EXCEPT !.alias = alias']
  /\ \/ /\ aliasDir' = (dependencies[ai].filename :> dependencies[ai].content) @@ aliasDir
        /\ ai' = ai + 1
        /\ UNCHANGED <<pc, outcome, log>>
     \/ /\ AliasCatch(IOError)
        /\ UNCHANGED <<aliasDir, ai>>
  /\ UNCHANGED <<cmd, jsonVars, potVars, pluginVars, pkg, dependencies, aliasBefore>>

\* one turn of the loop: alias[name] is set, then the alias file is written
AliasWriteFile ==
  /\ cmd = "make-aliases" /\ pc = "alias.write"
  /\ ai <= Len(dependencies)
  /\ alias' = (dependencies[ai].name :> aliasPath(dependencies[ai].filename)) @@ alias
  /\ \/ /\ aliasDir' = (dependencies[ai].filename :> dependencies[ai].content) @@ aliasDir
        /\ ai' = ai + 1
        /\ UNCHANGED <<pc, outcome, log>>
     \/ /\ AliasCatch(IOError)
        /\ UNCHANGED <<aliasDir, ai>>
  /\ UNCHANGED <<cmd, jsonVars, potVars, pluginVars, pkgDisk, pkg, dependencies, aliasBefore>>

\* pkg.alias = alias and the write of package.json
AliasWritePackage ==
  /\ cmd = "make-aliases" /\ pc = "alias.write"
  /\ ai > Len(dependencies)
  /\ pkg' = [pkg EXCEPT !.alias = alias]
  /\ \/ /\ pkgDisk' = pkg'
        /\ pc' = "returned"
        /\ outcome' = "returned"
        /\ UNCHANGED log
     \/ /\ AliasCatch(IOError)
        /\ UNCHANGED pkgDisk
  /\ UNCHANGED <<cmd, jsonVars, potVars, pluginVars, aliasDir, dependencies, alias, ai, aliasBefore>>

Next ==
  \/ JsonGetData
  \/ JsonEnsureDir
  \/ JsonReaddir
  \/ JsonReadTemplate
  \/ JsonExecWp
  \/ JsonReadTemp
  \/ JsonGroup
  \/ JsonManifest
  \/ JsonSpawn
  \/ \E lang \in Langs : GenerateStep(lang)
  \/ \E lang \in Langs : GenerateMadgeFails(lang)
  \/ \E i \in 1..(2 * MaxEntries) : WriteDone(i)
  \/ \E i \in 1..(2 * MaxEntries) : WriteFails(i)
  \/ PotGetData
  \/ PotBackup
  \/ PotReplace
  \/ PotConvertTwig
  \/ PotExecWp
  \/ PotUpdatePaths
  \/ PotRestore
  \/ PotRemoveTmp
  \/ PotRemoveTwig
  \/ PluginPrompt
  \/ PluginGetData
  \/ PluginMkdir
  \/ PluginWrite
  \/ AliasGetData
  \/ AliasReaddir
  \/ AliasUnlink
  \/ AliasWriteFile
  \/ AliasWritePackage

Spec == Init /\ [][Next]_vars

(***************************************************************************)
(* Properties.                                                             *)
(***************************************************************************)
\* the message table a catalog's `domain` designates
ActiveMsgs(t) == t.locale_data[t.domain].msgs

\* the fragments of a write's locale, as loaded, whose source is in the
\* dependency set of the write's entry
MatchingAsLoaded(lang, key) ==
  SelectSeq(loaded[lang],
            LAMBDA t : \E dep \in {key} \cup (IF key \in libUsers THEN {"lib.js"} ELSE {}) :
                         t.source = [dir |-> "src", file |-> dep])

\* the value of key k in the last fragment of `frags` that has k
LastValue(frags, k) ==
  ActiveMsgs(frags[CHOOSE i \in DOMAIN frags :
                     /\ k \in DOMAIN ActiveMsgs(frags[i])
                     /\ \A j \in DOMAIN frags :
                          k \in DOMAIN ActiveMsgs(frags[j]) => j <= i])[k]

\* C1: every catalog written for an entry holds every message key of every
\* fragment (as loaded) of its locale whose source is in the entry's dependency
\* set, and a key of several such fragments carries the value of the last one.
C1_UnionLastWins ==
  \A i \in DOMAIN writes :
    LET matching == MatchingAsLoaded(writes[i].lang, writes[i].key) IN
      \A j \in DOMAIN matching :
        \A k \in DOMAIN ActiveMsgs(matching[j]) :
          /\ k \in DOMAIN ActiveMsgs(writes[i].content)
          /\ ActiveMsgs(writes[i].content)[k] = LastValue(matching, k)

\* C2: the fragment lists of the locales stay as they were loaded: processing
\* an entrypoint changes no fragment's domain, source or locale_data.
C2_FragmentsReadOnly == translations = loaded

\* C3: no file is written for a (manifest entry, locale) pair none of whose
\* locale's fragments (as loaded) has its source in the entry's dependency set.
C3_NoOutputWithoutMatch ==
  \A i \in DOMAIN writes : Len(MatchingAsLoaded(writes[i].lang, writes[i].key)) >= 1

\* C3 witness: a pipeline passed a '.js' entry without a matching fragment,
\* wrote nothing for it, and went on to write the catalog of a later entry.
C3_Witness ==
  \E lang \in DOMAIN pipe : \E i, j \in DOMAIN manifest :
    /\ i < j
    /\ j < pipe[lang].idx
    /\ extname(manifest[i].key) = ".js"
    /\ Len(MatchingAsLoaded(lang, manifest[i].key)) = 0
    /\ ~\E w \in DOMAIN writes : writes[w].lang = lang /\ writes[w].key = manifest[i].key
    /\ \E w \in DOMAIN writes : writes[w].lang = lang /\ writes[w].key = manifest[j].key

\* the catalogs one locale's generateTranslations leaves when it processes the
\* entries of m in order, every step succeeding
RECURSIVE RunLang(_, _, _, _, _)
RunLang(m, i, trs, lang, acc) ==
  IF i > Len(m) THEN acc
  ELSE IF extname(m[i].key) /= ".js" THEN RunLang(m, i + 1, trs, lang, acc)
  ELSE LET deps == Dependencies(m[i].key, libUsers) IN
    IF Len(Related(trs, deps)) < 1 THEN RunLang(m, i + 1, trs, lang, acc)
    ELSE RunLang(m, i + 1, TranslationsAfter(trs, deps, domain, m[i].out), lang,
                 (translationFileName(domain, lang, m[i].out)
                    :> MergedTranslations(trs, deps, domain, m[i].out)) @@ acc)

\* the catalogs a run leaves when every locale processes the entries of m in order
CatalogsOf(m) ==
  LET of(l) == RunLang(m, 1, loaded[l], l, <<>>) IN
    [f \in UNION {DOMAIN of(l) : l \in DOMAIN loaded} |->
      of(CHOOSE l \in DOMAIN loaded : f \in DOMAIN of(l))[f]]

\* the orders in which the entries of m can be processed
Orders(m) ==
  {[i \in DOMAIN m |-> m[p[i]]] :
    p \in {q \in [DOMAIN m -> DOMAIN m] : \A i, j \in DOMAIN m : i /= j => q[i] /= q[j]}}

\* C4: the files a successful run leaves in dist, and their contents, are those
\* of processing the manifest entries in any other order, however the locales'
\* pipelines interleaved.
C4_OrderIndependent ==
  (cmd = "make-json" /\ pc = "returned" /\ log = <<>>)
    => \A m \in Orders(manifest) : disk = CatalogsOf(m)

\* a madge failure was caught and logged by makeJson
MadgeFailureLogged ==
  \E i \in DOMAIN log :
    log[i].message = JsonMessage /\ log[i].error = ToolError /\ log[i].at = "awaitAll"

\* C5: once a madge failure was logged as 'Could not generate translations',
\* no pipeline starts another madge call or another file write.
C5_FailureStopsRun ==
  [][MadgeFailureLogged => (madgeCalls' = madgeCalls /\ Len(writes') = Len(writes))]_vars

\* C6: no top-level operation rejects: every error is caught and logged, and
\* the operation returns.
C6_NeverRejects == outcome /= "rejected"

\* the step taken threw an I/O error
ThrewIO == log' /= log /\ log'[Len(log')].error = IOError

\* C7: when extractDomain finishes on two template files of which only the
\* second declares 'X-Domain: foo', it returns 'foo'.
C7_SkipsFilesWithoutMarker ==
  [][(/\ cmd = "make-json"
      /\ pc = "readFile" /\ pc' /= "readFile"
      /\ ~ThrewIO
      /\ Len(templates) = 2
      /\ templates[1].content = NoMarker
      /\ templates[2].content = "foo")
     => (pc' = "execWp" /\ domain' = "foo")]_vars

\* C8: extractDomain throws the not-found error when the directory holds no
\* .po/.pot file, and the no-domain error when it holds template files none of
\* which has the X-Domain marker.
C8_ExtractDomainErrors ==
  [][/\ (/\ cmd = "make-json" /\ pc = "readdir" /\ pc' /= "readdir"
         /\ ~ThrewIO /\ templates' = <<>>)
          => (log' /= log /\ log'[Len(log')].error = NotFoundError)
     /\ (/\ cmd = "make-json" /\ pc = "readFile" /\ pc' /= "readFile"
         /\ ~ThrewIO
         /\ \A i \in DOMAIN templates : templates[i].content = NoMarker)
          => (log' /= log /\ log'[Len(log')].error = NoDomainError)]_vars

\* extractDomain threw; getAssetsManifest threw
ExtractDomainFailed == \E i \in DOMAIN log : log[i].at \in {"readdir", "readFile"}
ManifestFailed == \E i \in DOMAIN log : log[i].at = "manifest"

\* C9: when extractDomain fails, wp i18n make-json is never invoked; when
\* extractDomain fails or assets.json cannot be read, no madge call is made and
\* no catalog is written.
C9_FailsFast ==
  cmd = "make-json" =>
    /\ ExtractDomainFailed => wpCalls = 0
    /\ (ExtractDomainFailed \/ ManifestFailed)
         => (madgeCalls = 0 /\ writes = <<>> /\ disk = <<>>)

\* C9 witness: the manifest could not be read after the fragments were loaded.
C9_Witness ==
  cmd = "make-json" /\ pc = "returned" /\ ManifestFailed /\ wpCalls = 1 /\ loaded /= <<>>

\* C10 as stated: no two writes of a run target the same file name, for
\* every manifest.
C10_DistinctNamesAnyManifest ==
  \A i, j \in DOMAIN writes : i /= j => writes[i].file /= writes[j].file

\* the '.js' entries of the manifest name pairwise distinct built files
DistinctOutputs ==
  \A i, j \in DOMAIN manifest :
    (i /= j /\ extname(manifest[i].key) = ".js" /\ extname(manifest[j].key) = ".js")
      => manifest[i].out /= manifest[j].out

\* C10 amended: when the '.js' entries of the manifest name pairwise distinct
\* built files, no two writes of a run target the same file name.
C10_DistinctNames ==
  DistinctOutputs =>
    \A i, j \in DOMAIN writes : i /= j => writes[i].file /= writes[j].file

\* C10 witness: one locale wrote the catalogs of two entries with distinct
\* built files, and both writes completed.
C10_Witness ==
  /\ DistinctOutputs
  /\ \E i, j \in DOMAIN writes :
       /\ i /= j
       /\ writes[i].lang = writes[j].lang
       /\ writes[i].key /= writes[j].key
       /\ writes[i].st = "done" /\ writes[j].st = "done"

\* `const originalDomain = mergedTranslations.domain` of a write
OriginalDomain(w) == merge(w.related).domain

\* C11: every catalog written is re-domained to the target: its domain is the
\* target domain, its table is under locale_data[target] with the metadata
\* entry's domain equal to the target, and no entry is left under the merged
\* catalog's original domain when that differed from the target.
C11_ReDomained ==
  \A i \in DOMAIN writes :
    LET c == writes[i].content IN
      /\ c.domain = domain
      /\ domain \in DOMAIN c.locale_data
      /\ c.locale_data[domain].meta.domain = domain
      /\ OriginalDomain(writes[i]) /= domain
           => OriginalDomain(writes[i]) \notin DOMAIN c.locale_data

\* C11 witness: a catalog merged from fragments of another domain than the
\* target was written to disk.
C11_Witness ==
  \E i \in DOMAIN writes :
    /\ writes[i].st = "done"
    /\ OriginalDomain(writes[i]) /= domain
    /\ disk[writes[i].file].domain = domain

\* the fragments an entry's merge took are all in the target domain already
InTargetDomain(w) == \A j \in DOMAIN w.related : w.related[j].domain = domain

\* C12: when the fragments an entry's merge takes are already in the target
\* domain, the written catalog's locale_data is exactly their deep merge, and
\* re-domaining a written catalog again changes nothing.
C12_ReDomainIdempotent ==
  \A i \in DOMAIN writes :
    /\ InTargetDomain(writes[i])
         => writes[i].content.locale_data = merge(writes[i].related).locale_data
    /\ ReDomain(writes[i].content, domain) = writes[i].content

\* C12 witness: a catalog merged from two fragments of the target domain was
\* written to disk.
C12_Witness ==
  \E i \in DOMAIN writes :
    /\ writes[i].st = "done"
    /\ Len(writes[i].related) = 2
    /\ InTargetDomain(writes[i])

\* the writes issued for one manifest entry by one locale's pipeline
WritesFor(lang, key) ==
  {i \in DOMAIN writes : writes[i].lang = lang /\ writes[i].key = key}

\* C13: after a run that logged no error, for each '.js' manifest entry and
\* each locale with at least one matching fragment exactly one file was
\* written, named '{domain}-{locale}-{hash(p)}.json' in dist with
\* p = 'dist/' + outputFile, and the written catalog's source is p.
C13_OneFilePerEntry ==
  (cmd = "make-json" /\ pc = "returned" /\ log = <<>>) =>
    \A lang \in DOMAIN loaded : \A e \in DOMAIN manifest :
      (extname(manifest[e].key) = ".js"
        /\ Len(MatchingAsLoaded(lang, manifest[e].key)) >= 1)
      => /\ Cardinality(WritesFor(lang, manifest[e].key)) = 1
         /\ \A i \in WritesFor(lang, manifest[e].key) :
              LET p == [dir |-> "dist", file |-> manifest[e].out] IN
                /\ writes[i].file =
                     [dir |-> "dist", domain |-> domain, lang |-> lang,
                      hash |-> <<"md5", p.dir, p.file>>]
                /\ writes[i].file \in DOMAIN disk
                /\ writes[i].content.source = p

\* C14: when makePot finishes, on every exit path, every file under src has
\* its original content again.
C14_SourcesRestored ==
  (cmd = "make-pot" /\ pc \in {"returned", "rejected"})
    => src = [f \in PotFiles |-> Original(f)]

\* makeAliases returned without having logged an error
AliasesMade == cmd = "make-aliases" /\ pc = "returned" /\ log = <<>>

\* C15: after a successful makeAliases, whatever earlier runs left, the alias
\* directory holds 'wordpress-{module}.js' for exactly the '@wordpress/{module}'
\* packages declared in dependencies, and package.json's alias maps each of
\* them to './src/alias/wordpress-{module}.js' and holds no entry for an
\* '@wordpress' package that is not declared.
C15_AliasesMatchDependencies ==
  AliasesMade =>
    \A d \in WpDeps :
      LET file == wpFilename(moduleName(d)) IN
        IF d \in aliasBefore.pkg.dependencies
        THEN /\ file \in DOMAIN aliasDir
             /\ d \in DOMAIN pkgDisk.alias
             /\ pkgDisk.alias[d] = <<"./src/alias", file>>
        ELSE /\ file \notin DOMAIN aliasDir
             /\ d \notin DOMAIN pkgDisk.alias

\* C15 witness: a successful run that found the alias file and the alias entry
\* of a package no longer declared, and declares another '@wordpress' package.
C15_Witness ==
  /\ AliasesMade
  /\ "wordpress-data.js" \in DOMAIN aliasBefore.dir
  /\ "@wordpress/data" \in DOMAIN aliasBefore.pkg.alias
  /\ "@wordpress/i18n" \in aliasBefore.pkg.dependencies
  /\ "wordpress-i18n.js" \in DOMAIN aliasDir

\* makeAliases aborted on `Object.keys(pkg.dependencies)`: package.json has no
\* dependencies field
DependenciesMissing ==
  cmd = "make-aliases" /\ \E i \in DOMAIN log : log[i].error = TypeError

\* C16: when the required package.json field is missing (dependencies for
\* makeAliases), the operation aborts before any file or directory is
\* created, modified or deleted.
C16_AbortsBeforeIO ==
  DependenciesMissing => (aliasDir = aliasBefore.dir /\ pkgDisk = aliasBefore.pkg)

\* C17: no state persists across makeJson runs other than the output files:
\* the fragments a run uses are those the extraction produced in that run,
\* none is a file an earlier run left in the temporary directory.
C17_NoLeftoverUsed ==
  \A lang \in DOMAIN loaded : \A i \in DOMAIN loaded[lang] :
    \A j \in DOMAIN leftover : loaded[lang][i] /= leftover[j]

\* the '.js' entries of the manifest
JsEntries == {e \in DOMAIN manifest : extname(manifest[e].key) = ".js"}

\* C18: a manifest entry whose key has another extension than '.js' is
\* skipped entirely: no pipeline awaits a dependency resolution for it, no
\* more resolutions are started than there are '.js' entries per locale, and
\* no write is issued for it.
C18_NonJsSkipped ==
  /\ \A i \in DOMAIN writes : extname(writes[i].key) = ".js"
  /\ \A lang \in DOMAIN pipe :
       pipe[lang].st = "madge" => pipe[lang].idx \in JsEntries
  /\ madgeCalls <= Cardinality(DOMAIN pipe) * Cardinality(JsEntries)

\* C18 witness: a pipeline went past a '.css' entry and wrote the catalog of
\* the '.js' entry that follows it.
C18_Witness ==
  \E lang \in DOMAIN pipe : \E c, e \in DOMAIN manifest :
    /\ c < e /\ e < pipe[lang].idx
    /\ extname(manifest[c].key) = ".css"
    /\ \E i \in DOMAIN writes :
         writes[i].lang = lang /\ writes[i].key = manifest[e].key /\ writes[i].st = "done"

\* C19: the locale grouping getOriginalTranslations builds is a partition of
\* the loaded fragments: the groups are keyed by the lang of the metadata
\* entry of each fragment's active domain, every fragment is in the group of
\* its lang and in no other, in load order, and no group is empty.
C19_GroupingIsPartition ==
  [][(cmd = "make-json" /\ pc = "group" /\ pc' = "manifest") =>
      /\ DOMAIN loaded' =
           {parsed[i].locale_data[parsed[i].domain].meta.lang : i \in DOMAIN parsed}
      /\ \A l \in DOMAIN loaded' :
           /\ Len(loaded'[l]) >= 1
           /\ loaded'[l] =
                SelectSeq(parsed, LAMBDA t : t.locale_data[t.domain].meta.lang = l)]_vars

\* C19 witness: two fragments of one locale and domain were grouped, in load
\* order.
C19_Witness ==
  /\ cmd = "make-json" /\ pc = "manifest"
  /\ \E l \in DOMAIN loaded :
       /\ Len(loaded[l]) = 2
       /\ loaded[l][1] /= loaded[l][2]

\* the removal of the old alias files, or the write of an alias file, failed
AliasFilesFailed ==
  \E i \in DOMAIN log :
    \/ log[i].at \in {"alias.readdir", "alias.unlink"} /\ log[i].error = IOError
    \/ log[i].at = "alias.write" /\ ai <= Len(dependencies)

\* C20: makeAliases rewrites package.json only after the old alias files were
\* removed and every new alias file was written: if the removal or an
\* alias-file write fails, package.json is unchanged, and a changed
\* package.json means every alias file of the dependencies array is in place.
C20_PackageWrittenLast ==
  cmd = "make-aliases" =>
    /\ AliasFilesFailed => pkgDisk = aliasBefore.pkg
    /\ pkgDisk /= aliasBefore.pkg =>
         \A j \in DOMAIN dependencies :
           /\ dependencies[j].filename \in DOMAIN aliasDir
           /\ aliasDir[dependencies[j].filename] = dependencies[j].content

\* C20 witness: the write of the second alias file failed after the first was
\* written, with an alias mapping that differs from the one in package.json.
C20_Witness ==
  /\ cmd = "make-aliases" /\ pc = "returned"
  /\ AliasFilesFailed
  /\ ai = 2 /\ ai <= Len(dependencies)
  /\ alias /= aliasBefore.pkg.alias
  /\ pkgDisk = aliasBefore.pkg

\* the alias keys makeAliases rewrites: the '@wordpress' packages, and react
\* and lodash when they are declared dependencies
OwnedAliasKey(k) ==
  \/ k \in {"@wordpress/i18n", "@wordpress/api-fetch", "@wordpress/data"}
  \/ k \in {"react", "lodash"} /\ k \in aliasBefore.pkg.dependencies

\* C21: makeAliases preserves what it does not own: every alias entry of
\* package.json whose key has no '@wordpress' and is not a rewritten react or
\* lodash dependency keeps its value, the other fields of package.json are
\* unchanged, and no file of the alias directory whose name has no
\* 'wordpress' is removed.
C21_PreservesTheRest ==
  (cmd = "make-aliases" /\ DOMAIN pkgDisk /= {}) =>
    /\ \A k \in DOMAIN aliasBefore.pkg.alias :
         ~OwnedAliasKey(k) =>
           /\ k \in DOMAIN pkgDisk.alias
           /\ pkgDisk.alias[k] = aliasBefore.pkg.alias[k]
    /\ pkgDisk.name = aliasBefore.pkg.name
    /\ pkgDisk.dependencies = aliasBefore.pkg.dependencies
    /\ \A f \in DOMAIN aliasBefore.dir :
         f \in {"react.js", "notes.js"} => f \in DOMAIN aliasDir

\* C21 witness: a successful run rewrote package.json for a declared
\* '@wordpress' package, in a project whose alias mapping had entries for
\* jquery and for a react that is not a dependency, and whose alias directory
\* held a file without 'wordpress' in its name.
C21_Witness ==
  /\ cmd = "make-aliases" /\ pc = "returned" /\ log = <<>>
  /\ {"jquery", "react"} \subseteq DOMAIN aliasBefore.pkg.alias
  /\ "react" \notin aliasBefore.pkg.dependencies
  /\ "@wordpress/i18n" \in aliasBefore.pkg.dependencies
  /\ "notes.js" \in DOMAIN aliasBefore.dir
  /\ "wordpress-data.js" \in DOMAIN aliasBefore.dir
  /\ pkgDisk /= aliasBefore.pkg

====
